---- MODULE Spec2Model ----
(***************************************************************************)
(* Attachment management plugin: the path utility stripPaths and the       *)
(* plugin's command and vault-event handlers (src/src/utils.ts).           *)
(*                                                                         *)
(* Strings are sequences of one-character strings.  A path is such a       *)
(* sequence; "/" is the separator.                                         *)
(***************************************************************************)
EXTENDS Integers, Sequences, FiniteSets, TLC

\* Longest path string given to stripPaths.
MaxLen == 4

\* Characters the path strings are drawn from.
Chars == {"a", "b", "/"}

RECURSIVE StringsOfLen(_)
StringsOfLen(n) ==
    IF n = 0 THEN { <<>> }
    ELSE { <<c>> \o s : c \in Chars, s \in StringsOfLen(n - 1) }

PathStrings == UNION { StringsOfLen(n) : n \in 0..MaxLen }

(***************************************************************************)
(* String.prototype.split("/"): the maximal runs between separators; the  *)
(* empty string splits into one empty segment.                             *)
(***************************************************************************)
RECURSIVE split(_)
split(s) ==
    IF s = <<>> THEN << <<>> >>
    ELSE LET rest == split(Tail(s)) IN
         IF Head(s) = "/" THEN << <<>> >> \o rest
         ELSE << <<Head(s)>> \o Head(rest) >> \o Tail(rest)

(***************************************************************************)
(* Array.prototype.join("/").                                              *)
(***************************************************************************)
RECURSIVE join(_)
join(parts) ==
    IF Len(parts) = 0 THEN <<>>
    ELSE IF Len(parts) = 1 THEN parts[1]
    ELSE parts[1] \o <<"/">> \o join(Tail(parts))

\* Array.prototype.slice(0, n)
slice0(parts, n) == SubSeq(parts, 1, IF n < Len(parts) THEN n ELSE Len(parts))

\* The value stripPaths returns: undefined, or a {nsrc, ndst} record.
Undefined == [tag |-> "undefined"]
Stripped(nsrc, ndst) == [tag |-> "record", nsrc |-> nsrc, ndst |-> ndst]

\* Mutant of the loop: the slice stops one segment short (slice(0, i)).
RECURSIVE stripLoopShort(_, _, _)
stripLoopShort(srcParts, dstParts, i) ==
    IF i < Len(srcParts)
    THEN IF srcParts[i + 1] # dstParts[i + 1]
         THEN Stripped(join(slice0(srcParts, i)), join(slice0(dstParts, i)))
         ELSE stripLoopShort(srcParts, dstParts, i + 1)
    ELSE Stripped(<<>>, <<>>)

\* Mutant of the loop: ndst is the whole of dst, not its slice.
RECURSIVE stripLoopWholeDst(_, _, _)
stripLoopWholeDst(srcParts, dstParts, i) ==
    IF i < Len(srcParts)
    THEN IF srcParts[i + 1] # dstParts[i + 1]
         THEN Stripped(join(slice0(srcParts, i + 1)), join(dstParts))
         ELSE stripLoopWholeDst(srcParts, dstParts, i + 1)
    ELSE Stripped(<<>>, <<>>)

\* for (let i = 0; i < srcParts.length; i++) { ... }  return {nsrc:"", ndst:""}
\* i is the 0-based loop index; TLA+ sequences are 1-based.
RECURSIVE stripLoop(_, _, _)
stripLoop(srcParts, dstParts, i) ==
    IF i < Len(srcParts)
    THEN IF srcParts[i + 1] # dstParts[i + 1]
         THEN Stripped(join(slice0(srcParts, i + 1)), join(slice0(dstParts, i + 1)))
         ELSE stripLoop(srcParts, dstParts, i + 1)
    ELSE Stripped(<<>>, <<>>)

\* Mutant of stripPaths: the early return for equal inputs is missing.
stripPathsNoEqualReturn(src, dst) ==
    LET srcParts == split(src)
        dstParts == split(dst)
    IN  IF Len(srcParts) # Len(dstParts) THEN Undefined
        ELSE stripLoop(srcParts, dstParts, 0)

\* Mutant of stripPaths: the early return for equal inputs returns the
\* empty strings the final return gives.
stripPathsEqualEmpty(src, dst) ==
    IF src = dst THEN Stripped(<<>>, <<>>)
    ELSE LET srcParts == split(src)
             dstParts == split(dst)
         IN  IF Len(srcParts) # Len(dstParts) THEN Undefined
             ELSE stripLoop(srcParts, dstParts, 0)

\* Mutant of stripPaths: the segment-count check only rejects a longer src.
stripPathsLenGreater(src, dst) ==
    IF src = dst THEN Stripped(src, dst)
    ELSE LET srcParts == split(src)
             dstParts == split(dst)
         IN  IF Len(srcParts) > Len(dstParts) THEN Undefined
             ELSE stripLoop(srcParts, SubSeq(dstParts, 1, Len(srcParts)), 0)

stripPaths(src, dst) ==
    IF src = dst THEN Stripped(src, dst)
    ELSE LET srcParts == split(src)
             dstParts == split(dst)
         IN  IF Len(srcParts) # Len(dstParts) THEN Undefined
             ELSE stripLoop(srcParts, dstParts, 0)

VARIABLES callSrc, callDst, callRet, callRetSwapped

stripVars == <<callSrc, callDst, callRet, callRetSwapped>>

NotCalled == [tag |-> "notCalled"]

(***************************************************************************)
(* The plugin (class AttachmentManagementPlugin).                          *)
(*                                                                         *)
(* The vault is a small fixed universe of paths.  Handlers run as the host *)
(* event loop runs them: each action below is one synchronous segment of a *)
(* handler, from its start or from the completion of the operation it      *)
(* awaits up to its next await or its end.  saveData and loadData requests *)
(* go to the host's storage, which completes them in the order issued      *)
(* (ioq); a request nobody awaits has owner 0.                             *)
(***************************************************************************)

\* Number of events and commands the host delivers in one behaviour of Spec;
\* SpecDeep delivers one more.
MaxEvents == 2

\* if (timeGapMs > 1000 || timeGapCs > 1000)
TimeGapLimit == 1000

Notes == {"n1.md", "n2.md", "ex/n1.md"}
Folders == {"d1", "d2"}
Paths == Notes \cup Folders \cup {"img.png", "pic.png", "c.canvas", "x.tmp"}

Extension(p) ==
    CASE p \in Notes -> "md"
      [] p \in {"img.png", "pic.png"} -> "png"
      [] p = "c.canvas" -> "canvas"
      [] p = "x.tmp" -> "tmp"
      [] OTHER -> ""

ParentPath(p) == IF p = "ex/n1.md" THEN "ex" ELSE "/"

\* A TAbstractFile: a TFile or a TFolder.
AbstractFile(p) ==
    [tag |-> IF p \in Folders THEN "TFolder" ELSE "TFile",
     path |-> p, extension |-> Extension(p), parent |-> ParentPath(p)]

\* A JavaScript string value, as passed where a TAbstractFile is declared.
StringValue(s) == [tag |-> "string", value |-> s]

\* file instanceof TFile && file.extension === "md"
isMarkdownFile(file) == file.tag = "TFile" /\ file.extension = "md"

\* file instanceof TFile && file.extension === "canvas"
isCanvasFile(file) == file.tag = "TFile" /\ file.extension = "canvas"

\* Extensions matched by settings.excludeExtensionPattern, and the folders
\* the settings exclude.
ExcludedExtensions == {"tmp"}
ExcludedFolders == {"ex"}

matchExtension(extension, pattern) == extension \in pattern
isExcluded(path, s) == path \in ExcludedFolders

\* An attachment: a file that is neither a note, a canvas nor of an
\* excluded extension.
isAttachment(s, file) ==
    /\ file.tag = "TFile"
    /\ file.extension \notin {"md", "canvas"}
    /\ ~matchExtension(file.extension, ExcludedExtensions)

Absent == [type |-> "ABSENT"]
Global == [type |-> "GLOBAL"]
Policy(p, tmpl) ==
    [type |-> IF p \in Folders THEN "FOLDER" ELSE "FILE", tmpl |-> tmpl]

\* Paths that can carry an override: notes and folders.
OverrideKeys == Notes \cup Folders

NoOverrides == [p \in OverrideKeys |-> Absent]

\* The override that applies to a rename of oldPath to file.path: the entry
\* of the old path, else the entry of the new path, else the global policy.
getRenameOverrideSetting(s, file, oldPath) ==
    IF oldPath \in OverrideKeys /\ s.overridePath[oldPath] # Absent
    THEN s.overridePath[oldPath]
    ELSE IF file.path \in OverrideKeys /\ s.overridePath[file.path] # Absent
    THEN s.overridePath[file.path]
    ELSE Global

\* The key oldPath is rewritten to file.path.
updateOverrideSetting(s, file, oldPath) ==
    IF oldPath \in OverrideKeys /\ s.overridePath[oldPath] # Absent
    THEN [s EXCEPT !.overridePath =
             [@ EXCEPT ![file.path] = s.overridePath[oldPath], ![oldPath] = Absent]]
    ELSE s

\* deleteOverrideSetting returns whether an entry was removed ...
hasOverrideSetting(s, file) ==
    file.path \in OverrideKeys /\ s.overridePath[file.path] # Absent

\* ... and removes the entry of file.path.
deleteOverrideSetting(s, file) ==
    IF hasOverrideSetting(s, file)
    THEN [s EXCEPT !.overridePath[file.path] = Absent]
    ELSE s

\* A reset that empties the whole override map.
deleteEveryOverridePathKey(s, path) ==
    [s EXCEPT !.overridePath = NoOverrides]

\* delete this.settings.overridePath[file.path]
deleteOverridePathKey(s, path) ==
    IF path \in OverrideKeys THEN [s EXCEPT !.overridePath[path] = Absent] ELSE s

VARIABLES
    settings,   \* this.settings, the in-memory settings object
    disk,       \* the settings blob in host-managed storage
    ioq,        \* saveData / loadData requests the storage has not completed
    handlers,   \* the running event handlers, by the number of their event
    nEvents,    \* events and commands delivered so far
    vault,      \* the paths that exist in the vault
    dirs,       \* per note, its attachment folder: "none", "empty" or "files"
    last,       \* the handler or command that ended in the step just taken
    ideal       \* overridePath with every mutation made applied in order

pluginVars == <<settings, disk, ioq, handlers, nEvents, vault, dirs, last, ideal>>

vars == <<callSrc, callDst, callRet, callRetSwapped, settings, disk, ioq, handlers, nEvents,
          vault, dirs, last, ideal>>

Slots == 1..(MaxEvents + 1)

Idle == [pc |-> "idle"]
NoLast == [pc |-> "none"]

\* A handler invocation: its arguments, its position and what it has done.
Handler(kind, path, oldPath) ==
    [pc |-> "start", kind |-> kind, file |-> path, oldPath |-> oldPath,
     setting |-> Global,   \* const { setting } = getRenameOverrideSetting(...)
     hadEntry |-> Absent,  \* overridePath[oldPath or file.path] at the event
     clean |-> TRUE,       \* no later event or command named its paths
     checking |-> FALSE,   \* checkCallback's argument
     ret |-> "",           \* checkCallback's return value
     rearranged |-> FALSE, \* rearrangeAttachment was called
     processed |-> FALSE,  \* processAttach was called
     removed |-> FALSE,    \* adapter.rmdir was called
     modal |-> FALSE,      \* an OverrideModal was opened
     notice |-> ""]        \* the Notice shown

SaveOp(owner, data) == [op |-> "save", owner |-> owner, data |-> data]
LoadOp(owner) == [op |-> "load", owner |-> owner]

HeadIs(op, owner) ==
    /\ ioq # <<>>
    /\ Head(ioq).op = op
    /\ Head(ioq).owner = owner

\* DEFAULT_SETTINGS: no overrides, automatic renaming off.
DefaultSettings == [overridePath |-> NoOverrides, autoRenameAttachment |-> FALSE]

\* this.settings = Object.assign({}, DEFAULT_SETTINGS, await this.loadData()):
\* every field of the loaded blob, and the default for a field it lacks.
LoadedSettings(data) ==
    [k \in DOMAIN DefaultSettings \cup DOMAIN data |->
        IF k \in DOMAIN data THEN data[k] ELSE DefaultSettings[k]]

\* await this.saveData(this.settings): the blob written holds the fields of
\* the settings object as they are when saveData is called.
SavedData(s) == [k \in DOMAIN s |-> s[k]]

Done(h) == [h EXCEPT !.pc = "done"]

\* A later event or command that names a path of a running rename handler.
MarkDisturbed(hs, ps) ==
    [i \in Slots |->
        IF hs[i].pc # "idle" /\ hs[i].kind = "rename"
              /\ ({hs[i].file, hs[i].oldPath} \cap ps) # {}
        THEN [hs[i] EXCEPT !.clean = FALSE]
        ELSE hs[i]]

InitialOverrides ==
    { [p \in OverrideKeys |->
          IF p \in ks THEN Policy(p, IF p = "d1" THEN "t2" ELSE "t1") ELSE Absent] :
        ks \in SUBSET {"n1.md", "d1"} }

PluginStart ==
    /\ settings \in [overridePath : InitialOverrides, autoRenameAttachment : BOOLEAN]
    /\ disk = settings
    /\ ioq = <<>>
    /\ handlers = [i \in Slots |-> Idle]
    /\ nEvents = 0
    /\ vault = {"n1.md", "d1", "img.png"}
    /\ dirs = [n \in Notes |-> IF n = "n1.md" THEN "files" ELSE "none"]
    /\ last = NoLast
    /\ ideal = settings.overridePath

StripIdle ==
    /\ callSrc = <<>>
    /\ callDst = <<>>
    /\ callRet = NotCalled
    /\ callRetSwapped = NotCalled

PluginIdle ==
    /\ settings = [overridePath |-> NoOverrides, autoRenameAttachment |-> FALSE]
    /\ disk = settings
    /\ ioq = <<>>
    /\ handlers = [i \in Slots |-> Idle]
    /\ nEvents = 0
    /\ vault = {}
    /\ dirs = [n \in Notes |-> "none"]
    /\ last = NoLast
    /\ ideal = NoOverrides

\* The handler in slot i ends; hs is the handler table it leaves.
Finish(i, h, hs) ==
    /\ handlers' = [hs EXCEPT ![i] = Idle]
    /\ last' = Done(h)

\* The handler in slot i goes on to wait at pc.
Continue(i, h, hs) ==
    /\ handlers' = [hs EXCEPT ![i] = h]
    /\ last' = NoLast

At(i, pc) == handlers[i].pc = pc

(***************************************************************************)
(* vault.on("create")                                                      *)
(***************************************************************************)
\* The returns of the handler before processAttach.
CreateSkips(file, gapMs, gapCs) ==
    \/ file.tag # "TFile"
    \/ gapMs > TimeGapLimit \/ gapCs > TimeGapLimit
    \/ isMarkdownFile(StringValue(file.extension))
    \/ isCanvasFile(StringValue(file.extension))
    \/ matchExtension(file.extension, ExcludedExtensions)

\* (timeGapMs, timeGapCs) of the created file.
GapSamples ==
    {<<TimeGapLimit, TimeGapLimit>>, <<TimeGapLimit + 1, 0>>, <<0, TimeGapLimit + 1>>}

OnCreate(limit, p, gap) ==
    /\ nEvents < limit
    /\ p \notin vault
    /\ LET file == AbstractFile(p)
           i == nEvents + 1
           h == Handler("create", p, "")
       IN  /\ vault' = vault \cup {p}
           /\ nEvents' = i
           /\ IF CreateSkips(file, gap[1], gap[2])
              THEN Finish(i, h, handlers)
              ELSE Continue(i, [h EXCEPT !.pc = "c_process", !.processed = TRUE], handlers)
    /\ UNCHANGED <<settings, disk, ioq, dirs, ideal, stripVars>>

\* processAttach moves the new file into the attachment folder of a note.
CreateAfterProcess(i) ==
    /\ At(i, "c_process")
    /\ LET h == handlers[i] IN
       /\ IF h.file \in vault /\ (vault \cap Notes) # {}
          THEN \E n \in vault \cap Notes :
                  /\ vault' = vault \ {h.file}
                  /\ dirs' = [dirs EXCEPT ![n] = "files"]
          ELSE UNCHANGED <<vault, dirs>>
       /\ ioq' = Append(ioq, SaveOp(i, SavedData(settings)))
       /\ Continue(i, [h EXCEPT !.pc = "c_save"], handlers)
    /\ UNCHANGED <<settings, disk, nEvents, ideal, stripVars>>

CreateAfterSave(i) ==
    /\ At(i, "c_save")
    /\ HeadIs("save", i)
    /\ disk' = Head(ioq).data
    /\ ioq' = Append(Tail(ioq), LoadOp(i))
    /\ Continue(i, [handlers[i] EXCEPT !.pc = "c_load"], handlers)
    /\ UNCHANGED <<settings, nEvents, vault, dirs, ideal, stripVars>>

CreateAfterLoad(i) ==
    /\ At(i, "c_load")
    /\ HeadIs("load", i)
    /\ settings' = LoadedSettings(disk)
    /\ ioq' = Tail(ioq)
    /\ Finish(i, handlers[i], handlers)
    /\ UNCHANGED <<disk, nEvents, vault, dirs, ideal, stripVars>>

(***************************************************************************)
(* vault.on("rename")                                                      *)
(***************************************************************************)
RenamePairs ==
    {<<"n1.md", "n2.md">>, <<"n2.md", "n1.md">>, <<"n1.md", "ex/n1.md">>,
     <<"d1", "d2">>, <<"img.png", "pic.png">>}

\* Mutant: renamed attachments are not told apart from notes.
RenameOutcomeNoAttachmentTest(s, file) ==
    IF ~s.autoRenameAttachment THEN "disabled"
    ELSE IF file.tag = "TFile"
         THEN IF isExcluded(file.parent, s) THEN "excluded"
              ELSE "rearrange"
         ELSE "folder"

\* Which way the handler goes after the override update.
RenameOutcome(s, file) ==
    IF ~s.autoRenameAttachment THEN "disabled"
    ELSE IF file.tag = "TFile"
         THEN IF isExcluded(file.parent, s) THEN "excluded"
              ELSE IF isAttachment(s, file) THEN "attachment"
              ELSE "rearrange"
         ELSE "folder"

RenameDecide(i, h, hs, s) ==
    LET outcome == RenameOutcome(s, AbstractFile(h.file)) IN
    IF outcome = "rearrange"
    THEN Continue(i, [h EXCEPT !.pc = "r_rearrange", !.rearranged = TRUE], hs)
    ELSE IF outcome = "excluded"
    THEN Finish(i, [h EXCEPT !.notice = "was excluded, skipped"], hs)
    ELSE Finish(i, h, hs)

EntryAt(s, path) == IF path \in OverrideKeys THEN s.overridePath[path] ELSE Absent

OnRename(limit, oldPath, newPath) ==
    /\ nEvents < limit
    /\ <<oldPath, newPath>> \in RenamePairs
    /\ oldPath \in vault
    /\ newPath \notin vault
    /\ LET file == AbstractFile(newPath)
           i == nEvents + 1
           setting == getRenameOverrideSetting(settings, file, oldPath)
           h == [Handler("rename", newPath, oldPath) EXCEPT
                    !.setting = setting, !.hadEntry = EntryAt(settings, oldPath)]
           hs == MarkDisturbed(handlers, {oldPath, newPath})
       IN  /\ vault' = (vault \ {oldPath}) \cup {newPath}
           /\ nEvents' = i
           /\ IF setting.type \in {"FOLDER", "FILE"}
              THEN /\ settings' = updateOverrideSetting(settings, file, oldPath)
                   /\ ideal' = IF EntryAt(settings, oldPath) # Absent
                               THEN [ideal EXCEPT ![newPath] = settings.overridePath[oldPath],
                                                  ![oldPath] = Absent]
                               ELSE ideal
                   /\ ioq' = Append(ioq, SaveOp(i, SavedData(settings')))
                   /\ Continue(i, [h EXCEPT !.pc = "r_save1"], hs)
              ELSE /\ UNCHANGED <<settings, ideal, ioq>>
                   /\ RenameDecide(i, h, hs, settings)
    /\ UNCHANGED <<disk, dirs, stripVars>>

RenameAfterSave(i) ==
    /\ At(i, "r_save1")
    /\ HeadIs("save", i)
    /\ disk' = Head(ioq).data
    /\ ioq' = Append(Tail(ioq), LoadOp(i))
    /\ Continue(i, [handlers[i] EXCEPT !.pc = "r_load1"], handlers)
    /\ UNCHANGED <<settings, nEvents, vault, dirs, ideal, stripVars>>

RenameAfterLoad(i) ==
    /\ At(i, "r_load1")
    /\ HeadIs("load", i)
    /\ settings' = LoadedSettings(disk)
    /\ ioq' = Tail(ioq)
    /\ RenameDecide(i, handlers[i], handlers, settings')
    /\ UNCHANGED <<disk, nEvents, vault, dirs, ideal, stripVars>>

\* rearrangeAttachment("file", file, oldPath) moves the attachments of the
\* old note path to the attachment folder of the new one.
RenameAfterRearrange(i) ==
    /\ At(i, "r_rearrange")
    /\ LET h == handlers[i] IN
       /\ dirs' = IF h.oldPath \in Notes /\ h.file \in Notes /\ dirs[h.oldPath] = "files"
                  THEN [dirs EXCEPT ![h.file] = "files", ![h.oldPath] = "empty"]
                  ELSE dirs
       /\ ioq' = Append(ioq, SaveOp(i, SavedData(settings)))
       /\ Continue(i, [h EXCEPT !.pc = "r_save2"], handlers)
    /\ UNCHANGED <<settings, disk, nEvents, vault, ideal, stripVars>>

\* await saveSettings() returns; loadSettings() is started and not awaited;
\* adapter.exists(oldPath) is awaited.
RenameAfterSave2(i) ==
    /\ At(i, "r_save2")
    /\ HeadIs("save", i)
    /\ disk' = Head(ioq).data
    /\ ioq' = Append(Tail(ioq), LoadOp(0))
    /\ Continue(i, [handlers[i] EXCEPT !.pc = "r_exists"], handlers)
    /\ UNCHANGED <<settings, nEvents, vault, dirs, ideal, stripVars>>

RenameAfterExists(i) ==
    /\ At(i, "r_exists")
    /\ IF handlers[i].oldPath \notin vault
       THEN Finish(i, handlers[i], handlers)
       ELSE Continue(i, [handlers[i] EXCEPT !.pc = "r_list"], handlers)
    /\ UNCHANGED <<settings, disk, ioq, nEvents, vault, dirs, ideal, stripVars>>

\* adapter.list(oldAttachPath) returns; a folder that does not exist makes
\* it throw, which ends the handler.
RenameAfterList(i) ==
    /\ At(i, "r_list")
    /\ LET h == handlers[i]
           old == IF h.oldPath \in Notes THEN dirs[h.oldPath] ELSE "none"
       IN  IF old = "empty"
           THEN Continue(i, [h EXCEPT !.pc = "r_rmdir", !.removed = TRUE], handlers)
           ELSE Finish(i, h, handlers)
    /\ UNCHANGED <<settings, disk, ioq, nEvents, vault, dirs, ideal, stripVars>>

\* adapter.rmdir(oldAttachPath, true) returns.
RenameAfterRmdir(i) ==
    /\ At(i, "r_rmdir")
    /\ dirs' = IF handlers[i].oldPath \in Notes
               THEN [dirs EXCEPT ![handlers[i].oldPath] = "none"]
               ELSE dirs
    /\ Finish(i, handlers[i], handlers)
    /\ UNCHANGED <<settings, disk, ioq, nEvents, vault, ideal, stripVars>>

(***************************************************************************)
(* vault.on("delete")                                                      *)
(***************************************************************************)
OnDelete(limit, p) ==
    /\ nEvents < limit
    /\ p \in vault
    /\ LET file == AbstractFile(p)
           i == nEvents + 1
           h == [Handler("delete", p, "") EXCEPT !.hadEntry = EntryAt(settings, p)]
           hs == MarkDisturbed(handlers, {p})
       IN  /\ vault' = vault \ {p}
           /\ nEvents' = i
           /\ IF isExcluded(file.parent, settings) \/ isAttachment(settings, file)
              THEN /\ Finish(i, h, hs)
                   /\ UNCHANGED <<settings, ideal, ioq>>
              ELSE IF hasOverrideSetting(settings, file)
              THEN /\ settings' = deleteOverrideSetting(settings, file)
                   /\ ideal' = [ideal EXCEPT ![p] = Absent]
                   /\ ioq' = Append(ioq, SaveOp(i, SavedData(settings')))
                   /\ Continue(i, [h EXCEPT !.pc = "d_save"], hs)
              ELSE /\ Finish(i, h, hs)
                   /\ UNCHANGED <<settings, ideal, ioq>>
    /\ UNCHANGED <<disk, dirs, stripVars>>

\* await saveSettings() returns; loadSettings() is started and not awaited.
DeleteAfterSave(i) ==
    /\ At(i, "d_save")
    /\ HeadIs("save", i)
    /\ disk' = Head(ioq).data
    /\ ioq' = Append(Tail(ioq), LoadOp(0))
    /\ Finish(i, [handlers[i] EXCEPT !.notice = "Removed override setting"], handlers)
    /\ UNCHANGED <<settings, nEvents, vault, dirs, ideal, stripVars>>

(***************************************************************************)
(* Commands.  getActiveFile gives a file of the vault or null.             *)
(***************************************************************************)
ActiveFiles == (vault \ Folders) \cup {"null"}

\* The branch both checkCallbacks take, with the exclusion test left out.
CommandOutcomeNoExcludedTest(s, active, checking) ==
    IF active = "null" THEN "nofile"
    ELSE IF isAttachment(s, AbstractFile(active)) THEN "attachment"
    ELSE IF checking THEN "checking"
    ELSE "run"

\* The branch both checkCallbacks take: no active file, an attachment, a
\* call that only asks whether the command applies, an excluded parent
\* folder, or the command's work.
CommandOutcome(s, active, checking) ==
    IF active = "null" THEN "nofile"
    ELSE IF isAttachment(s, AbstractFile(active)) THEN "attachment"
    ELSE IF checking THEN "checking"
    ELSE IF isExcluded(AbstractFile(active).parent, s) THEN "excluded"
    ELSE "run"

\* The Notice a skipping branch shows and the value checkCallback returns.
CommandNotice(out) ==
    CASE out = "attachment" -> "is an attachment, skipped"
      [] out = "excluded" -> "was excluded, skipped"
      [] OTHER -> ""

CommandReturn(out) == IF out = "nofile" THEN "false" ELSE "true"

\* "reset-override-setting" checkCallback
ResetOverrideCommand(limit, active, checking) ==
    /\ nEvents < limit
    /\ active \in ActiveFiles
    /\ LET i == nEvents + 1
           out == CommandOutcome(settings, active, checking)
           h == [Handler("reset", active, "") EXCEPT
                    !.checking = checking, !.hadEntry = EntryAt(settings, active),
                    !.ret = CommandReturn(out)]
       IN  /\ nEvents' = i
           /\ IF out = "run"
              THEN /\ settings' = deleteOverridePathKey(settings, active)
                   /\ ideal' = IF active \in OverrideKeys
                               THEN [ideal EXCEPT ![active] = Absent] ELSE ideal
                   /\ ioq' = Append(ioq, SaveOp(0, SavedData(settings')))
                   /\ Finish(i, [h EXCEPT !.notice = "Reset attachment setting"],
                             MarkDisturbed(handlers, {active}))
              ELSE /\ Finish(i, [h EXCEPT !.notice = CommandNotice(out)], handlers)
                   /\ UNCHANGED <<settings, ideal, ioq>>
    /\ UNCHANGED <<disk, vault, dirs, stripVars>>

\* "override-setting" checkCallback; overrideConfiguration opens the modal
\* and starts a loadSettings that the callback does not wait for.
OverrideCommand(limit, active, checking) ==
    /\ nEvents < limit
    /\ active \in ActiveFiles
    /\ LET i == nEvents + 1
           out == CommandOutcome(settings, active, checking)
           h == [Handler("override", active, "") EXCEPT
                    !.checking = checking, !.hadEntry = EntryAt(settings, active),
                    !.ret = CommandReturn(out)]
       IN  /\ nEvents' = i
           /\ IF out = "run"
              THEN /\ ioq' = Append(ioq, LoadOp(0))
                   /\ Finish(i, [h EXCEPT !.modal = TRUE], handlers)
              ELSE /\ Finish(i, [h EXCEPT !.notice = CommandNotice(out)], handlers)
                   /\ UNCHANGED ioq
    /\ UNCHANGED <<settings, disk, vault, dirs, ideal, stripVars>>

(***************************************************************************)
(* Storage requests that no handler waits for.                             *)
(***************************************************************************)
BackgroundSaveDone ==
    /\ HeadIs("save", 0)
    /\ disk' = Head(ioq).data
    /\ ioq' = Tail(ioq)
    /\ last' = NoLast
    /\ UNCHANGED <<settings, handlers, nEvents, vault, dirs, ideal, stripVars>>

BackgroundLoadDone ==
    /\ HeadIs("load", 0)
    /\ settings' = LoadedSettings(disk)
    /\ ioq' = Tail(ioq)
    /\ last' = NoLast
    /\ UNCHANGED <<disk, handlers, nEvents, vault, dirs, ideal, stripVars>>

Init == PluginStart /\ StripIdle

\* The steps of a behaviour in which the host delivers at most limit events
\* and commands.
NextWithin(limit) ==
    \/ \E p \in Paths, gap \in GapSamples : OnCreate(limit, p, gap)
    \/ \E i \in Slots : CreateAfterProcess(i)
    \/ \E i \in Slots : CreateAfterSave(i)
    \/ \E i \in Slots : CreateAfterLoad(i)
    \/ \E pair \in RenamePairs : OnRename(limit, pair[1], pair[2])
    \/ \E i \in Slots : RenameAfterSave(i)
    \/ \E i \in Slots : RenameAfterLoad(i)
    \/ \E i \in Slots : RenameAfterRearrange(i)
    \/ \E i \in Slots : RenameAfterSave2(i)
    \/ \E i \in Slots : RenameAfterExists(i)
    \/ \E i \in Slots : RenameAfterList(i)
    \/ \E i \in Slots : RenameAfterRmdir(i)
    \/ \E p \in Paths : OnDelete(limit, p)
    \/ \E i \in Slots : DeleteAfterSave(i)
    \/ \E active \in Paths \cup {"null"}, checking \in BOOLEAN :
           ResetOverrideCommand(limit, active, checking)
    \/ \E active \in Paths \cup {"null"}, checking \in BOOLEAN :
           OverrideCommand(limit, active, checking)
    \/ BackgroundSaveDone
    \/ BackgroundLoadDone

Next == NextWithin(MaxEvents)

NextDeep == NextWithin(MaxEvents + 1)

Spec == Init /\ [][Next]_vars

\* Behaviours one event longer than those of Spec.
SpecDeep == Init /\ [][NextDeep]_vars

StripInit ==
    /\ callSrc \in PathStrings
    /\ callDst \in PathStrings
    /\ callRet = NotCalled
    /\ callRetSwapped = NotCalled
    /\ PluginIdle

CallStripPaths ==
    /\ callRet = NotCalled
    /\ callRet' = stripPaths(callSrc, callDst)
    /\ UNCHANGED <<callSrc, callDst, callRetSwapped>>
    /\ UNCHANGED pluginVars

\* The call with the two arguments exchanged: stripPaths(dst, src).
CallStripPathsSwapped ==
    /\ callRetSwapped = NotCalled
    /\ callRetSwapped' = stripPaths(callDst, callSrc)
    /\ UNCHANGED <<callSrc, callDst, callRet>>
    /\ UNCHANGED pluginVars

NextStrip == CallStripPaths \/ CallStripPathsSwapped

SpecStrip == StripInit /\ [][NextStrip]_vars

(***************************************************************************)
(* Properties of stripPaths (checked under SpecStrip).                     *)
(***************************************************************************)
Called == callRet # NotCalled

srcSegs == split(callSrc)
dstSegs == split(callDst)

SameCount == Len(srcSegs) = Len(dstSegs)

\* k (1-based) is the first position at which the segments differ.
FirstDiffAt(k) ==
    /\ k \in 1..Len(srcSegs)
    /\ k <= Len(dstSegs)
    /\ srcSegs[k] # dstSegs[k]
    /\ \A j \in 1..(k - 1) : srcSegs[j] = dstSegs[j]

\* C1: for src # dst with the same number of segments, the result is the
\* first i+1 segments of each side joined by "/", i the smallest index at
\* which the segments differ.
C1_FirstDifference ==
    (Called /\ callSrc # callDst /\ SameCount) =>
        \E k \in 1..Len(srcSegs) :
            /\ FirstDiffAt(k)
            /\ callRet = Stripped(join(SubSeq(srcSegs, 1, k)),
                                  join(SubSeq(dstSegs, 1, k)))

\* A call whose paths first differ in their second of three segments, so
\* that both results are proper prefixes of the inputs.
C1_Witness ==
    /\ Called
    /\ callSrc = <<"a", "/", "a", "/">>
    /\ callDst = <<"a", "/", "b", "/">>
    /\ FirstDiffAt(2)
    /\ callRet = Stripped(<<"a", "/", "a">>, <<"a", "/", "b">>)

\* C2: equal inputs are returned unchanged on both sides.
C2_EqualInputs ==
    (Called /\ callSrc = callDst) =>
        (callRet.tag = "record" /\ callRet.nsrc = callSrc /\ callRet.ndst = callSrc)

C2_Witness ==
    /\ Called
    /\ callSrc = <<"a", "/", "b">>
    /\ callDst = <<"a", "/", "b">>
    /\ callRet = Stripped(<<"a", "/", "b">>, <<"a", "/", "b">>)

\* C3: paths with different numbers of segments give undefined, never a
\* record.
C3_CountMismatch ==
    (Called /\ ~SameCount) => (callRet = Undefined /\ callRet.tag # "record")

C3_Witness ==
    /\ Called
    /\ callSrc = <<"a", "/", "b">>
    /\ callDst = <<"a">>
    /\ callRet = Undefined

AllSegmentsMatch ==
    /\ SameCount
    /\ \A j \in 1..Len(srcSegs) : srcSegs[j] = dstSegs[j]

\* C4 as stated: when every segment matches, both sides are empty strings.
C4_Original ==
    (Called /\ AllSegmentsMatch) => callRet = Stripped(<<>>, <<>>)

\* C4 as amended: when every segment matches the inputs are equal and come
\* back unchanged; a result of two empty strings is returned only for two
\* empty inputs (the return after the loop is never reached).
C4_AllMatchUnchanged ==
    /\ (Called /\ AllSegmentsMatch) =>
          /\ callSrc = callDst
          /\ callRet = [tag |-> "record", nsrc |-> callSrc, ndst |-> callDst]
    /\ (Called /\ callRet = Stripped(<<>>, <<>>)) =>
          (callSrc = <<>> /\ callDst = <<>>)

C4_Witness ==
    /\ Called
    /\ AllSegmentsMatch
    /\ Len(srcSegs) = 2
    /\ callSrc # <<>>
    /\ callRet.tag = "record"
    /\ callRet.nsrc # <<>>

(***************************************************************************)
(* Properties of the plugin's handlers.                                    *)
(***************************************************************************)
Ended(kind) == last.pc = "done" /\ last.kind = kind

NoHandlerRunning == \A i \in Slots : handlers[i] = Idle

Quiescent == NoHandlerRunning /\ ioq = <<>>

\* C5: when the rename handler of a path that had an override entry has
\* finished, overridePath holds that policy under the new path and nothing
\* under the old path.  Stated for the handlers whose paths no later event
\* or command has named, so that only the handler itself and the settings
\* traffic of unrelated handlers decide it.
C5_OverrideTracksRename ==
    (Ended("rename") /\ last.hadEntry # Absent /\ last.clean) =>
        /\ settings.overridePath[last.file] = last.hadEntry
        /\ settings.overridePath[last.oldPath] = Absent

\* C6: when the delete handler of a path that was a key of overridePath has
\* finished, overridePath has no entry for that path.
C6_DeleteRemovesEntry ==
    (Ended("delete") /\ last.hadEntry # Absent) =>
        settings.overridePath[last.file] = Absent

\* C7: whenever no handler is running, the persisted settings equal the
\* in-memory settings (each handler's own save has completed by its end).
C7_SavedWhenHandlersDone ==
    NoHandlerRunning => disk = settings

\* C8: after all handlers and all the storage requests they started have
\* run to completion, the in-memory and the persisted settings agree and
\* hold every mutation of overridePath that was made.
C8_NoLostMutation ==
    Quiescent =>
        /\ settings = disk
        /\ settings.overridePath = ideal
        /\ disk.overridePath = ideal

\* The four conditions under which a rename is rearranged.
RenameConditions(h) ==
    /\ settings.autoRenameAttachment
    /\ AbstractFile(h.file).tag = "TFile"
    /\ ~isExcluded(AbstractFile(h.file).parent, settings)
    /\ ~isAttachment(settings, AbstractFile(h.file))

RenameHandlers ==
    { handlers[i] : i \in { j \in Slots : handlers[j].pc # "idle" /\ handlers[j].kind = "rename" } }
      \cup (IF Ended("rename") THEN {last} ELSE {})

ExcludedNotice == "was excluded, skipped"

\* C9 as stated: rearrangement only under the four conditions, otherwise no
\* rearrangement and no folder removal, and the notice whenever the parent
\* folder of the renamed file is excluded.
C9_Original ==
    /\ \A h \in RenameHandlers :
          /\ h.rearranged => RenameConditions(h)
          /\ h.removed => RenameConditions(h)
    /\ Ended("rename") =>
          (isExcluded(AbstractFile(last.file).parent, settings)
              => last.notice = ExcludedNotice)

\* C9 as amended: the notice is shown exactly when the exclusion test is the
\* one that stops the handler: autoRenameAttachment is enabled, the renamed
\* item is a file and its parent folder is excluded.
C9_RearrangeOnlyWhen ==
    /\ \A h \in RenameHandlers :
          /\ h.rearranged => RenameConditions(h)
          /\ h.removed => (h.rearranged /\ RenameConditions(h))
    /\ Ended("rename") =>
          /\ ~RenameConditions(last) => (~last.rearranged /\ ~last.removed)
          /\ (last.notice = ExcludedNotice) <=>
                /\ settings.autoRenameAttachment
                /\ AbstractFile(last.file).tag = "TFile"
                /\ isExcluded(AbstractFile(last.file).parent, settings)

\* A rename into the excluded folder ended with the notice, and without
\* rearrangement.
C9_Witness ==
    /\ Ended("rename")
    /\ last.file = "ex/n1.md"
    /\ settings.autoRenameAttachment
    /\ last.notice = ExcludedNotice
    /\ ~last.rearranged
    /\ ~last.removed

CreateHandlers ==
    { handlers[i] : i \in { j \in Slots : handlers[j].pc # "idle" /\ handlers[j].kind = "create" } }
      \cup (IF Ended("create") THEN {last} ELSE {})

\* C10: the create handler never calls processAttach for a folder, a
\* markdown file, a canvas file or a file of an excluded extension.
C10_CreateIgnoresNotes ==
    \A h \in CreateHandlers :
        h.processed =>
            /\ AbstractFile(h.file).tag = "TFile"
            /\ AbstractFile(h.file).extension \notin {"md", "canvas"}
            /\ ~matchExtension(AbstractFile(h.file).extension, ExcludedExtensions)

\* Rename handlers that have called adapter.rmdir and wait for it to return.
Removing ==
    { handlers[i] : i \in { j \in Slots : handlers[j].pc = "r_rmdir" } }

\* The attachment folder of the note at path p holds no file and no folder.
HoldsNothing(p) == p \in Notes /\ dirs[p] = "empty"

\* C11: while the rename handler's rmdir of the old attachment folder is
\* under way, the handler has rearranged, the old note path still exists and
\* the folder holds no file and no sub-folder.
C11_RemovesOnlyEmptyFolder ==
    \A h \in Removing :
        /\ h.rearranged
        /\ h.oldPath \in vault
        /\ HoldsNothing(h.oldPath)

\* What the guards of lines 276-287 do give: at the step in which the
\* handler calls rmdir, exists(oldPath) had returned true earlier and the
\* listing just returned was empty.
C11_CallFollowsEmptyListing ==
    [][\A i \in Slots :
          (handlers[i].pc # "r_rmdir" /\ handlers'[i].pc = "r_rmdir") =>
              /\ handlers[i].pc = "r_list"
              /\ handlers[i].rearranged
              /\ HoldsNothing(handlers[i].oldPath)]_vars

\* The step just taken was a call of one of the two checkCallbacks.
CommandCalled ==
    /\ nEvents' = nEvents + 1
    /\ last'.pc = "done"
    /\ last'.kind \in {"reset", "override"}

IsSave(op) == op.op = "save"

\* The call was made with checking = true, for an attachment, or for a file
\* whose parent folder is excluded.
SkipCondition(h, s) ==
    \/ h.checking
    \/ /\ h.file # "null"
       /\ \/ isAttachment(s, AbstractFile(h.file))
          \/ isExcluded(AbstractFile(h.file).parent, s)

\* C12: a call of "override-setting" or "reset-override-setting" with
\* checking = true, for an attachment, or for a file in an excluded folder
\* leaves settings.overridePath as it was and requests no save; the call
\* returns false exactly when there is no active file, and true otherwise.
C12_SkipsLeaveOverridesAlone ==
    [][CommandCalled =>
          /\ SkipCondition(last', settings) =>
                /\ settings'.overridePath = settings.overridePath
                /\ SelectSeq(ioq', IsSave) = SelectSeq(ioq, IsSave)
          /\ last'.ret \in {"false", "true"}
          /\ (last'.ret = "false") <=> (last'.file = "null")]_vars

\* "reset-override-setting" was executed for a note in the excluded folder
\* that has an override entry: the entry is still there.
C12_Witness ==
    /\ Ended("reset")
    /\ last.file = "ex/n1.md"
    /\ ~last.checking
    /\ last.ret = "true"
    /\ last.notice = ExcludedNotice
    /\ last.hadEntry # Absent
    /\ settings.overridePath["ex/n1.md"] = last.hadEntry

ResetNotice == "Reset attachment setting"

\* The step just taken executed "reset-override-setting" (checking = false)
\* for a file that is not an attachment and whose folder is not excluded.
ResetExecuted ==
    /\ CommandCalled
    /\ last'.kind = "reset"
    /\ last'.file # "null"
    /\ ~SkipCondition(last', settings)

\* C13: an executed "reset-override-setting" removes the overridePath entry
\* of the active file's path and changes no other entry and no other field
\* of the settings; executed again right after itself for the same file, it
\* changes nothing.
C13_ResetRemovesOneEntry ==
    [][ResetExecuted =>
          /\ last'.notice = ResetNotice
          /\ DOMAIN settings' = DOMAIN settings
          /\ \A f \in DOMAIN settings \ {"overridePath"} : settings'[f] = settings[f]
          /\ DOMAIN settings'.overridePath = DOMAIN settings.overridePath
          /\ \A k \in DOMAIN settings.overridePath :
                settings'.overridePath[k] =
                    IF k = last'.file THEN Absent ELSE settings.overridePath[k]
          /\ (Ended("reset") /\ last.notice = ResetNotice /\ last.file = last'.file)
                => settings' = settings]_vars

\* The reset removed the entry of n1.md and kept the entry of the folder d1.
C13_Witness ==
    /\ Ended("reset")
    /\ last.notice = ResetNotice
    /\ last.file = "n1.md"
    /\ last.hadEntry # Absent
    /\ settings.overridePath["n1.md"] = Absent
    /\ settings.overridePath["d1"] # Absent

CalledBothWays == Called /\ callRetSwapped # NotCalled

nsrcSegs == split(callRet.nsrc)
ndstSegs == split(callRet.ndst)

\* C14: a record returned for src # dst holds a segment-wise prefix of src
\* and one of dst, of the same number of segments, equal in every segment
\* but the last and different in the last; and stripPaths(dst, src) is
\* undefined exactly when stripPaths(src, dst) is, and is otherwise the same
\* record with nsrc and ndst exchanged.
C14_PrefixesAndSymmetry ==
    /\ (Called /\ callSrc # callDst /\ callRet.tag = "record") =>
          /\ Len(nsrcSegs) = Len(ndstSegs)
          /\ Len(nsrcSegs) <= Len(srcSegs)
          /\ Len(ndstSegs) <= Len(dstSegs)
          /\ nsrcSegs = SubSeq(srcSegs, 1, Len(nsrcSegs))
          /\ ndstSegs = SubSeq(dstSegs, 1, Len(ndstSegs))
          /\ \A k \in 1..(Len(nsrcSegs) - 1) : nsrcSegs[k] = ndstSegs[k]
          /\ nsrcSegs[Len(nsrcSegs)] # ndstSegs[Len(ndstSegs)]
    /\ CalledBothWays =>
          /\ (callRetSwapped = Undefined) <=> (callRet = Undefined)
          /\ callRet.tag = "record" =>
                callRetSwapped = Stripped(callRet.ndst, callRet.nsrc)

\* "/a/b" against "/b/b", called both ways: "/a" and "/b", and exchanged.
C14_Witness ==
    /\ callSrc = <<"/", "a", "/", "b">>
    /\ callDst = <<"/", "b", "/", "b">>
    /\ callRet = Stripped(<<"/", "a">>, <<"/", "b">>)
    /\ callRetSwapped = Stripped(<<"/", "b">>, <<"/", "a">>)

====
